---- MODULE Spec2Model ----
(***************************************************************************)
(* Model of the Radio 1 scraper (src/scrape_radio1.py): the line           *)
(* classifier, the DJ-header detector, the slot scan of scrape_program,    *)
(* DJStats, the stats store and the dedupe / analyze / filter pipeline of  *)
(* main.                                                                   *)
(*                                                                         *)
(* Text is a sequence of characters; a character is a one-character string *)
(* except for the two non-ASCII characters the source names, written as    *)
(* the tokens EnDash and Cart.                                             *)
(***************************************************************************)
EXTENDS Integers, Sequences, FiniteSets, TLC

VARIABLES
    \* scrape_program
    spc,            \* position in scrape_program
    articles,       \* page.query_selector_all("article, ...") (line 247)
    art_i,          \* index of the article being processed
    item_i,         \* index of the next <li> of that article
    lines,          \* full_text.split('\n') (line 278)
    line_i,         \* number of lines of the fallback scan already processed
    current_dj,     \* current_dj (line 225)
    songs,          \* songs (line 224)
    \* DJStats exercised on its own
    upc,            \* "call" before add_genres, "ret" after it
    ustats,         \* the DJStats object
    ugenres,        \* the argument of add_genres
    uscore,         \* the value of DJStats.score
    uclass,         \* the value of DJStats.classification
    uartist,        \* the left part a line is built from
    utitle,         \* the right part a line is built from
    uparsed,        \* the value of parse_song_line on the line built
    \* main, one copy of the locals per running process
    file,           \* radio1_dj_stats.json
    pc,             \* position in main
    args,           \* argparse namespace
    loaded,         \* the store as load_dj_stats returned it (line 515)
    dj_stats,       \* dj_stats
    scraped,        \* songs returned by scrape_program (line 526)
    unique_songs,   \* unique_songs
    lookups,        \* outcome of the Spotify lookup of each unique song
    output,         \* content written to args.output
    runs            \* number of runs of main started so far

vars == <<spc, articles, art_i, item_i, lines, line_i, current_dj, songs,
          upc, ustats, ugenres, uscore, uclass, uartist, utitle, uparsed,
          file, pc, args, loaded, dj_stats, scraped, unique_songs, lookups, output, runs>>

scanVars == <<spc, articles, art_i, item_i, lines, line_i, current_dj, songs>>
unitVars == <<upc, ustats, ugenres, uscore, uclass, uartist, utitle, uparsed>>
mainVars ==
    <<file, pc, args, loaded, dj_stats, scraped, unique_songs, lookups, output, runs>>

(***************************************************************************)
(* Characters and str methods                                              *)
(***************************************************************************)
EnDash == "endash"
Cart == "cart"

UpperSeq == <<"A","B","C","D","E","F","G","H","I","J","K","L","M",
              "N","O","P","Q","R","S","T","U","V","W","X","Y","Z">>
LowerSeq == <<"a","b","c","d","e","f","g","h","i","j","k","l","m",
              "n","o","p","q","r","s","t","u","v","w","x","y","z">>

Digits == {"0","1","2","3","4","5","6","7","8","9"}
WhiteSpace == {" ", "\t", "\n", "\r"}
Letters == {UpperSeq[i] : i \in 1..26} \cup {LowerSeq[i] : i \in 1..26}
WordChars == Letters \cup Digits \cup {"_"}

IsDigit(c) == c \in Digits
IsSpace(c) == c \in WhiteSpace

\* str.lower() on one character
LowerChar(c) ==
    IF \E i \in 1..26 : UpperSeq[i] = c
    THEN LowerSeq[CHOOSE i \in 1..26 : UpperSeq[i] = c]
    ELSE c

\* str.lower()
Lower(s) == [i \in 1..Len(s) |-> LowerChar(s[i])]

\* str.strip()
Strip(s) ==
    LET nonsp == {i \in 1..Len(s) : ~IsSpace(s[i])}
    IN  IF nonsp = {} THEN <<>>
        ELSE LET lo == CHOOSE i \in nonsp : \A j \in nonsp : i <= j
                 hi == CHOOSE i \in nonsp : \A j \in nonsp : j <= i
             IN  SubSeq(s, lo, hi)

\* s[i:].startswith(p), i counted from 1
MatchAt(s, p, i) ==
    /\ i >= 1
    /\ i + Len(p) - 1 <= Len(s)
    /\ \A k \in 1..Len(p) : s[i + k - 1] = p[k]

StartsWith(s, p) == MatchAt(s, p, 1)

\* p in s
Contains(s, p) == \E i \in 1..(Len(s) + 1) : MatchAt(s, p, i)

\* s.find(p), counted from 1; 0 when p does not occur
Find(s, p) ==
    IF Contains(s, p)
    THEN CHOOSE i \in 1..(Len(s) + 1) :
            /\ MatchAt(s, p, i)
            /\ \A j \in 1..(i - 1) : ~MatchAt(s, p, j)
    ELSE 0

\* s.rfind(p), counted from 1; 0 when p does not occur
RFind(s, p) ==
    IF Contains(s, p)
    THEN CHOOSE i \in 1..(Len(s) + 1) :
            /\ MatchAt(s, p, i)
            /\ \A j \in (i + 1)..(Len(s) + 1) : ~MatchAt(s, p, j)
    ELSE 0

\* the regular expression \d{1,2}[:.]\d{2} matched at position i: the position
\* after the match, 0 when it does not match (the match is unique: the
\* character after the digits must be the separator)
TimeEnd(s, i) ==
    LET at(k) == IF k >= 1 /\ k <= Len(s) THEN s[k] ELSE ""
        sep(k) == at(k) \in {":", "."}
        dig(k) == IsDigit(at(k))
    IN  IF dig(i) /\ sep(i + 1) /\ dig(i + 2) /\ dig(i + 3) THEN i + 4
        ELSE IF dig(i) /\ dig(i + 1) /\ sep(i + 2) /\ dig(i + 3) /\ dig(i + 4)
             THEN i + 5
        ELSE 0

\* \s* from position i: the first position >= i that holds no white space
SkipSpaces(s, i) ==
    LET stops == {k \in i..(Len(s) + 1) : k = Len(s) + 1 \/ ~IsSpace(s[k])}
    IN  CHOOSE k \in stops : \A j \in stops : k <= j

(***************************************************************************)
(* Line classifier: parse_song_line                                        *)
(***************************************************************************)
None == <<>>

SongSeparator == <<" ", "-", " ">>
Str_http == <<"h","t","t","p",":","/","/">>
Str_https == <<"h","t","t","p","s",":","/","/">>
Str_Zobrazit == <<"Z","o","b","r","a","z","i","t">>
Str_Stroke == <<"S","t","r","o","k","e">>
Str_Fill == <<"F","i","l","l">>
Str_Width == <<"W","i","d","t","h">>

\* any of skip_patterns found by re.search in the stripped line
SkipPatternMatches(line) ==
    \/ TimeEnd(line, 1) # 0                                    \* ^\d{1,2}[:.]\d{2}
    \/ StartsWith(line, Str_http) \/ StartsWith(line, Str_https) \* ^https?://
    \/ \E k \in 1..Len(line) :                                 \* ^\d+\s*$
          /\ \A i \in 1..k : IsDigit(line[i])
          /\ \A i \in (k + 1)..Len(line) : IsSpace(line[i])
    \/ \E i \in 1..Len(line) : line[i] \in {"{", "}"}          \* [{}]
    \/ StartsWith(line, Str_Zobrazit)                          \* ^Zobrazit
    \/ /\ Len(line) >= 1                                       \* ^[cart\s]+$
       /\ \A i \in 1..Len(line) : line[i] = Cart \/ IsSpace(line[i])
    \/ Contains(line, Str_Stroke) \/ Contains(line, Str_Fill)  \* Stroke|Fill|Width
    \/ Contains(line, Str_Width)

\* re.match(r'^[\W\s]+$', s)
OnlyNonWord(s) ==
    /\ Len(s) >= 1
    /\ \A i \in 1..Len(s) : s[i] \notin WordChars \/ IsSpace(s[i])

\* the length checks with the upper bounds exclusive
PartsAcceptedBelowBound(artist, title) ==
    /\ ~(Len(artist) < 2 \/ Len(title) < 2)
    /\ ~(OnlyNonWord(artist) \/ OnlyNonWord(title))
    /\ ~(Len(artist) >= 100 \/ Len(title) >= 150)

\* the length checks of parse_song_line on the two halves
PartsAccepted(artist, title) ==
    /\ ~(Len(artist) < 2 \/ Len(title) < 2)
    /\ ~(OnlyNonWord(artist) \/ OnlyNonWord(title))
    /\ ~(Len(artist) > 100 \/ Len(title) > 150)

\* parse_song_line: <<artist, title>>, or None
parse_song_line(raw) ==
    LET line == Strip(raw)
    IN  IF Len(line) < 5 THEN None
        ELSE IF SkipPatternMatches(line) THEN None
        ELSE IF Contains(line, SongSeparator)
        THEN LET k == Find(line, SongSeparator)
                 artist == Strip(SubSeq(line, 1, k - 1))
                 title == Strip(SubSeq(line, k + 3, Len(line)))
             IN  IF PartsAccepted(artist, title) THEN <<artist, title>> ELSE None
        ELSE None

(***************************************************************************)
(* DJ-header detector: extract_dj_name                                     *)
(***************************************************************************)
\* group(1) of time_pattern matched against the stripped text, None when
\* the pattern does not match
TimePatternGroup(t) ==
    LET e1 == TimeEnd(t, 1)
        a == SkipSpaces(t, e1)
        b == SkipSpaces(t, a + 1)
        e2 == TimeEnd(t, b)
        c == SkipSpaces(t, e2)
    IN  IF e1 = 0 THEN None
        ELSE IF ~(a <= Len(t) /\ t[a] \in {"-", EnDash}) THEN None
        ELSE IF e2 = 0 THEN None
        ELSE IF c > Len(t) THEN None
        ELSE IF \E i \in c..Len(t) : t[i] = "\n" THEN None
        ELSE SubSeq(t, c, Len(t))

\* extract_dj_name: the name, or None
extract_dj_name(text) ==
    LET t == Strip(text)
        g == TimePatternGroup(t)
        name0 == Strip(g)
        name == IF Contains(name0, <<"/">>)
                THEN Strip(SubSeq(name0, RFind(name0, <<"/">>) + 1, Len(name0)))
                ELSE name0
    IN  IF g # None /\ Len(name) > 2 /\ Len(name) < 50 THEN name ELSE None

(***************************************************************************)
(* Bounds and inputs of scrape_program                                     *)
(***************************************************************************)
MaxArticles == 2
MaxLines == 3

RECURSIVE SeqsUpTo(_, _)
\* the sequences over S of length at most n
SeqsUpTo(S, n) ==
    IF n = 0 THEN {<<>>}
    ELSE LET shorter == SeqsUpTo(S, n - 1)
         IN  shorter \cup {Append(q, x) : q \in {r \in shorter : Len(r) = n - 1}, x \in S}

Unknown == <<"U","n","k","n","o","w","n">>

Line_Ann == <<"6",".","0","0"," ","-"," ","7",".","0","0"," ","A","n","n">>
Line_Bob == <<"7",":","0","0"," ","endash"," ","8",":","0","0"," ","x","/","B","o","b">>
Line_Short == <<"9",".","0","0","-","1","0",".","0","0"," ","A","l">>
Line_Abba == <<"A","b","b","a"," ","-"," ","S","o","s">>
Line_Queen == <<" ","Q","u","e","e","n"," ","-"," ","H","i","t"," ">>
Line_Blank == <<" "," ">>
Line_Program == <<"P","r","o","g","r","a","m">>
Line_Noise == <<"Z","o","b","r","a","z","i","t"," ","-"," ","v","s","e">>

\* the lines a page body is made of
LinePool == {Line_Ann, Line_Bob, Line_Short, Line_Abba, Line_Queen, Line_Blank}

\* the program sections of a page: the texts of its headers and of its <li>s
ArticlePool ==
    { [headers |-> <<Line_Ann>>, items |-> <<>>],
      [headers |-> <<Line_Program, Line_Bob, Line_Ann>>, items |-> <<Line_Queen, Line_Noise>>],
      [headers |-> <<>>, items |-> <<Line_Abba>>] }

(***************************************************************************)
(* scrape_program                                                          *)
(***************************************************************************)
ScanInit ==
    /\ spc = "start"
    /\ articles = <<>>
    /\ art_i = 0
    /\ item_i = 0
    /\ lines = <<>>
    /\ line_i = 0
    /\ current_dj = Unknown
    /\ songs = <<>>

\* the position after article art_i: the next article, or the fallback check
AfterArticle ==
    /\ art_i' = art_i + 1
    /\ item_i' = 0
    /\ spc' = IF art_i < Len(articles) THEN "article" ELSE "fallback_check"

\* line 247: the page's sections are read
QueryArticles ==
    /\ spc = "start"
    /\ \E as \in SeqsUpTo(ArticlePool, MaxArticles) : articles' = as
    /\ art_i' = 1
    /\ item_i' = 0
    /\ spc' = IF articles' # <<>> THEN "article" ELSE "fallback_check"
    /\ UNCHANGED <<lines, line_i, current_dj, songs, unitVars, mainVars>>

\* the name of the first header of hs that extract_dj_name accepts (the loop
\* of lines 255-261 with its break), cur when there is none
FirstDJ(hs, cur) ==
    LET named == {i \in 1..Len(hs) : extract_dj_name(hs[i]) # None}
    IN  IF named = {} THEN cur
        ELSE extract_dj_name(hs[CHOOSE i \in named : \A j \in named : i <= j])

\* lines 254-264: the headers of article art_i
ArticleHeaders ==
    /\ spc = "article"
    /\ current_dj' = FirstDJ(articles[art_i].headers, current_dj)
    /\ item_i' = 1
    /\ spc' = "items"
    /\ UNCHANGED <<articles, art_i, lines, line_i, songs, unitVars, mainVars>>

\* the record appended for a text that parses as a song, none otherwise
Emit(ss, text, dj) ==
    LET result == parse_song_line(text)
    IN  IF result # None THEN Append(ss, <<result[1], result[2], dj>>) ELSE ss

\* lines 265-269: one <li> of article art_i
ArticleItem ==
    /\ spc = "items"
    /\ item_i <= Len(articles[art_i].items)
    /\ songs' = Emit(songs, articles[art_i].items[item_i], current_dj)
    /\ item_i' = item_i + 1
    /\ UNCHANGED <<spc, articles, art_i, lines, line_i, current_dj, unitVars, mainVars>>

\* the loop over the <li>s of article art_i ends
ArticleDone ==
    /\ spc = "items"
    /\ item_i > Len(articles[art_i].items)
    /\ AfterArticle
    /\ UNCHANGED <<articles, lines, line_i, current_dj, songs, unitVars, mainVars>>

\* lines 270-271: a page call raises inside article art_i, the article is left
ArticleRaise ==
    /\ spc \in {"article", "items"}
    /\ AfterArticle
    /\ UNCHANGED <<articles, lines, line_i, current_dj, songs, unitVars, mainVars>>

\* line 274 with songs found: no fallback, and the check of line 298 is false
FallbackSkipped ==
    /\ spc = "fallback_check"
    /\ songs # <<>>
    /\ spc' = "ret"
    /\ UNCHANGED <<articles, art_i, item_i, lines, line_i, current_dj, songs, unitVars, mainVars>>

\* lines 274-278: no songs, the body text is read and split
ReadLines ==
    /\ spc = "fallback_check"
    /\ songs = <<>>
    /\ \E ls \in SeqsUpTo(LinePool, MaxLines) : lines' = ls
    /\ line_i' = 0
    /\ spc' = "scan"
    /\ UNCHANGED <<articles, art_i, item_i, current_dj, songs, unitVars, mainVars>>

\* lines 277, 294-295: reading the body text raises
ReadLinesRaise ==
    /\ spc = "fallback_check"
    /\ songs = <<>>
    /\ spc' = "scanned"
    /\ UNCHANGED <<articles, art_i, item_i, lines, line_i, current_dj, songs, unitVars, mainVars>>

\* current_dj set by the first header only
ScanDJFirstHeaderOnly(line, cur) ==
    LET l == Strip(line)
    IN  IF l # <<>> /\ extract_dj_name(l) # None /\ cur = Unknown
        THEN extract_dj_name(l)
        ELSE cur

\* current_dj after one line of the fallback scan (lines 280-288)
ScanDJ(line, cur) ==
    LET l == Strip(line)
    IN  IF l = <<>> THEN cur
        ELSE IF extract_dj_name(l) # None THEN extract_dj_name(l)
        ELSE cur

\* every line with a separator emitted, split at the separator, with no
\* header test and no noise test
ScanSongsSplitOnly(ss, line, cur) ==
    LET l == Strip(line)
        k == Find(l, SongSeparator)
    IN  IF k = 0 THEN ss
        ELSE Append(ss, <<Strip(SubSeq(l, 1, k - 1)), Strip(SubSeq(l, k + 3, Len(l))), cur>>)

\* songs after one line of the fallback scan (lines 280-293)
ScanSongs(ss, line, cur) ==
    LET l == Strip(line)
    IN  IF l = <<>> THEN ss
        ELSE IF extract_dj_name(l) # None THEN ss
        ELSE Emit(ss, l, cur)

\* lines 279-293: one line of the fallback scan
ScanLine ==
    /\ spc = "scan"
    /\ line_i < Len(lines)
    /\ current_dj' = ScanDJ(lines[line_i + 1], current_dj)
    /\ songs' = ScanSongs(songs, lines[line_i + 1], current_dj)
    /\ line_i' = line_i + 1
    /\ UNCHANGED <<spc, articles, art_i, item_i, lines, unitVars, mainVars>>

\* the loop over the lines ends
ScanDone ==
    /\ spc = "scan"
    /\ line_i = Len(lines)
    /\ spc' = "scanned"
    /\ UNCHANGED <<articles, art_i, item_i, lines, line_i, current_dj, songs, unitVars, mainVars>>

\* lines 297-310: the debug dump when nothing was found, and the return
ScrapeReturn ==
    /\ spc = "scanned"
    /\ spc' = "ret"
    /\ UNCHANGED <<articles, art_i, item_i, lines, line_i, current_dj, songs, unitVars, mainVars>>

NextScan ==
    \/ QueryArticles
    \/ ArticleHeaders
    \/ ArticleItem
    \/ ArticleDone
    \/ ArticleRaise
    \/ FallbackSkipped
    \/ ReadLines
    \/ ReadLinesRaise
    \/ ScanLine
    \/ ScanDone
    \/ ScrapeReturn

(***************************************************************************)
(* DJStats                                                                 *)
(***************************************************************************)
PREFERRED_GENRES == <<
    <<"r","o","c","k">>,
    <<"i","n","d","i","e">>,
    <<"a","l","t","e","r","n","a","t","i","v","e">>,
    <<"p","o","s","t","-","p","u","n","k">>,
    <<"s","h","o","e","g","a","z","e">>,
    <<"g","r","u","n","g","e">>,
    <<"p","u","n","k">>,
    <<"n","e","w"," ","w","a","v","e">>,
    <<"b","r","i","t">>,
    <<"g","a","r","a","g","e">>,
    <<"p","s","y","c","h","e","d","e","l","i","c">>,
    <<"p","r","o","g","r","e","s","s","i","v","e">>,
    <<"e","l","e","c","t","r","o","n","i","c">>,
    <<"s","y","n","t","h">>,
    <<"d","r","e","a","m"," ","p","o","p">>,
    <<"n","o","i","s","e">>,
    <<"e","x","p","e","r","i","m","e","n","t","a","l">> >>

AVOIDED_GENRES == <<
    <<"r","a","p">>,
    <<"h","i","p"," ","h","o","p">>,
    <<"h","i","p","-","h","o","p">>,
    <<"t","r","a","p">>,
    <<"d","r","i","l","l">>,
    <<"g","r","i","m","e">>,
    <<"r","&","b">>,
    <<"r","n","b">>,
    <<"r","e","g","g","a","e","t","o","n">>,
    <<"u","r","b","a","n">>,
    <<"g","a","n","g","s","t","a">> >>

\* DJStats(name=name).  count_type is the Python type of songs_count: "int",
\* or "str" when from_dict stored a JSON string there (songs_count then holds 0)
NewDJStats(name) ==
    [name |-> name, songs_count |-> 0, count_type |-> "int", genre_counts |-> <<>>,
     preferred_score |-> 0, avoided_score |-> 0]

\* genre_counts.get(g, 0)
GenreCount(gc, g) == IF g \in DOMAIN gc THEN gc[g] ELSE 0

\* genre_counts[g] = genre_counts.get(g, 0) + 1
BumpGenre(gc, g) ==
    [x \in (DOMAIN gc) \cup {g} |-> IF x = g THEN GenreCount(gc, g) + 1 ELSE gc[x]]

RECURSIVE FirstMatchFrom(_, _, _)
\* the loops of lines 47-50 and 51-54 from term i on: 1 at the first term of
\* the list found in the tag (break), 0 when the list is exhausted
FirstMatchFrom(terms, tag, i) ==
    IF i > Len(terms) THEN 0
    ELSE IF Contains(tag, terms[i]) THEN 1
    ELSE FirstMatchFrom(terms, tag, i + 1)

RECURSIVE EveryMatchFrom(_, _, _)
\* the same loops without their break
EveryMatchFrom(terms, tag, i) ==
    IF i > Len(terms) THEN 0
    ELSE (IF Contains(tag, terms[i]) THEN 1 ELSE 0) + EveryMatchFrom(terms, tag, i + 1)

\* one increment per term of the list found in the tag
ScoreIncrementPerTerm(terms, tag) == EveryMatchFrom(terms, tag, 1)

\* what one loop over a list of terms adds to its score for one tag
ScoreIncrement(terms, tag) == FirstMatchFrom(terms, tag, 1)

\* the body of the loop of add_genres for one genre (lines 44-54)
AddGenre(stats, genre) ==
    LET genre_lower == Lower(genre)
    IN  [stats EXCEPT
            !.genre_counts = BumpGenre(@, genre_lower),
            !.preferred_score = @ + ScoreIncrement(PREFERRED_GENRES, genre_lower),
            !.avoided_score = @ + ScoreIncrement(AVOIDED_GENRES, genre_lower)]

RECURSIVE add_genres_from(_, _, _)
add_genres_from(stats, genres, i) ==
    IF i > Len(genres) THEN stats
    ELSE add_genres_from(AddGenre(stats, genres[i]), genres, i + 1)

\* DJStats.add_genres
add_genres(stats, genres) == add_genres_from(stats, genres, 1)

\* whether evaluating DJStats.score raises: songs_count == 0 is False for a
\* str, and the division then raises TypeError
ScoreRaises(stats) == stats.count_type = "str"

\* DJStats.score as the fraction <<numerator, denominator>>, denominator > 0.
\* Python divides two ints into the nearest double; for counters below 10^15
\* comparing the doubles is comparing the fractions.
Score(stats) ==
    IF stats.songs_count = 0 THEN <<0, 1>>
    ELSE <<stats.preferred_score - stats.avoided_score, stats.songs_count>>

\* a > b for fractions with positive denominators
FracGreater(a, b) == a[1] * b[2] > b[1] * a[2]

\* the thresholds 0.1 and -0.1 of classification
PreferredThreshold == <<1, 10>>
AvoidedThreshold == <<-1, 10>>

\* score >= 0.1
AtOrAbovePreferred(score) == ~FracGreater(PreferredThreshold, score)

\* score > 0.1
AbovePreferred(score) == FracGreater(score, PreferredThreshold)

\* score < -0.1
BelowAvoided(score) == FracGreater(AvoidedThreshold, score)

\* DJStats.classification
Classification(stats) ==
    IF AbovePreferred(Score(stats)) THEN "preferred"
    ELSE IF BelowAvoided(Score(stats)) THEN "avoided"
    ELSE "neutral"

(***************************************************************************)
(* DJStats on its own: one call of add_genres, one read of classification  *)
(***************************************************************************)
MaxTags == 3
MaxCount == 10

Name_Ann == <<"A","n","n">>
Name_Bob == <<"B","o","b">>
Name_Cyd == <<"C","y","d">>

Tag_IndieRock == <<"I","n","d","i","e"," ","R","o","c","k">>
Tag_RapRock == <<"r","a","p"," ","r","o","c","k">>
Tag_Trap == <<"T","r","a","p">>
Tag_Pop == <<"p","o","p">>

\* genre tags as the lookup returns them
TagPool == {Tag_IndieRock, Tag_RapRock, Tag_Trap, Tag_Pop}

\* a DJStats object that has already counted some songs
SeasonedStats ==
    [name |-> Name_Ann, songs_count |-> 2, count_type |-> "int",
     genre_counts |-> (Lower(Tag_Pop) :> 1) @@ (Lower(Tag_Trap) :> 2),
     preferred_score |-> 1, avoided_score |-> 2]

\* no line has been built
ParseIdle ==
    /\ uartist = <<>>
    /\ utitle = <<>>
    /\ uparsed = <<>>

UnitIdle ==
    /\ upc = "idle"
    /\ ParseIdle
    /\ ustats = NewDJStats(Name_Ann)
    /\ ugenres = <<>>
    /\ uscore = <<0, 1>>
    /\ uclass = ""

\* a DJStats object and a genre list, before add_genres
GenresInit ==
    /\ upc = "call"
    /\ ParseIdle
    /\ ustats \in {NewDJStats(Name_Ann), SeasonedStats}
    /\ ugenres \in SeqsUpTo(TagPool, MaxTags)
    /\ uscore = <<0, 1>>
    /\ uclass = ""

\* stats.add_genres(genres)
UAddGenres ==
    /\ upc = "call"
    /\ ustats' = add_genres(ustats, ugenres)
    /\ upc' = "ret"
    /\ UNCHANGED <<ugenres, uscore, uclass, uartist, utitle, uparsed, scanVars, mainVars>>

\* a DJStats object with any counters, before its classification is read
ClassifyInit ==
    /\ upc = "call"
    /\ ParseIdle
    /\ \E s \in 0..MaxCount, p \in 0..MaxCount, a \in 0..MaxCount :
          ustats = [NewDJStats(Name_Ann) EXCEPT
                       !.songs_count = s, !.preferred_score = p, !.avoided_score = a]
    /\ ugenres = <<>>
    /\ uscore = <<0, 1>>
    /\ uclass = ""

\* stats.score and stats.classification
UClassify ==
    /\ upc = "call"
    /\ uscore' = Score(ustats)
    /\ uclass' = Classification(ustats)
    /\ upc' = "ret"
    /\ UNCHANGED <<ustats, ugenres, uartist, utitle, uparsed, scanVars, mainVars>>

(***************************************************************************)
(* The stats store: to_dict, from_dict, load_dj_stats, save_dj_stats       *)
(*                                                                         *)
(* The file is missing, holds something json.load or .items() rejects      *)
(* ("garbage"), or holds a JSON object: a sequence of members, each with   *)
(* its key and the fields of its value.  A member may lack "name"          *)
(* (has_name) and may hold no "songs_count" or a string there (count_kind).*)
(* In memory dj_stats is a dict, kept as the sequence of its items in      *)
(* insertion order.                                                        *)
(***************************************************************************)
MissingFile == [kind |-> "missing", entries |-> <<>>]
GarbageFile == [kind |-> "garbage", entries |-> <<>>]
JsonFile(es) == [kind |-> "json", entries |-> es]

RECURSIVE GCD(_, _)
GCD(a, b) == IF b = 0 THEN a ELSE GCD(b, a % b)

Abs(n) == IF n < 0 THEN -n ELSE n

\* the value of a fraction, as its reduced form
Reduced(f) ==
    LET g == GCD(Abs(f[1]), f[2])
    IN  <<f[1] \div g, f[2] \div g>>

\* DJStats.to_dict, as the member stored under key
to_dict(key, stats) ==
    [key |-> key, has_name |-> TRUE, name |-> stats.name,
     count_kind |-> "int", songs_count |-> stats.songs_count,
     genre_counts |-> stats.genre_counts,
     preferred_score |-> stats.preferred_score,
     avoided_score |-> stats.avoided_score,
     score |-> Reduced(Score(stats)),
     classification |-> Classification(stats)]

\* data["name"] raises KeyError
FromDictRaises(entry) == ~entry.has_name

\* counters chosen so that the score after load is the serialized score
from_dict_trusting(entry) ==
    [name |-> entry.name,
     songs_count |-> entry.score[2],
     count_type |-> "int",
     genre_counts |-> entry.genre_counts,
     preferred_score |-> IF entry.score[1] > 0 THEN entry.score[1] ELSE 0,
     avoided_score |-> IF entry.score[1] < 0 THEN -entry.score[1] ELSE 0]

\* DJStats.from_dict
from_dict(entry) ==
    [name |-> entry.name,
     songs_count |-> IF entry.count_kind = "int" THEN entry.songs_count ELSE 0,
     count_type |-> IF entry.count_kind = "str" THEN "str" ELSE "int",
     genre_counts |-> entry.genre_counts,
     preferred_score |-> entry.preferred_score,
     avoided_score |-> entry.avoided_score]

\* load_dj_stats
load_dj_stats(f) ==
    IF f.kind = "json" /\ \A i \in 1..Len(f.entries) : ~FromDictRaises(f.entries[i])
    THEN [i \in 1..Len(f.entries) |->
             [key |-> f.entries[i].key, st |-> from_dict(f.entries[i])]]
    ELSE <<>>

\* to_dict raises in save_dj_stats, before the file is opened
SaveRaises(ds) == \E i \in 1..Len(ds) : ScoreRaises(ds[i].st)

\* the file save_dj_stats writes
save_dj_stats(ds) == JsonFile([i \in 1..Len(ds) |-> to_dict(ds[i].key, ds[i].st)])

\* dj in dj_stats
HasKey(ds, k) == \E i \in 1..Len(ds) : ds[i].key = k

\* dj_stats[dj]
StatsOf(ds, k) == ds[CHOOSE i \in 1..Len(ds) : ds[i].key = k].st

(***************************************************************************)
(* main: deduplication                                                     *)
(***************************************************************************)
\* a key that tells upper case from lower case
DedupeKeyCaseSensitive(song) == <<song[1], song[2]>>

\* the key of line 532
DedupeKey(song) == <<Lower(song[1]), Lower(song[2])>>

RECURSIVE DedupeFrom(_, _, _, _)
DedupeFrom(ss, i, seen, acc) ==
    IF i > Len(ss) THEN acc
    ELSE IF DedupeKey(ss[i]) \notin seen
         THEN DedupeFrom(ss, i + 1, seen \cup {DedupeKey(ss[i])}, Append(acc, ss[i]))
         ELSE DedupeFrom(ss, i + 1, seen, acc)

\* lines 528-535
Dedupe(ss) == DedupeFrom(ss, 1, {}, <<>>)

(***************************************************************************)
(* analyze_dj_genres                                                       *)
(*                                                                         *)
(* lk.available is FALSE when spotipy, the credentials or the client are   *)
(* missing; lk.results[i] is the outcome of the lookup of songs[i]:        *)
(* kind "error" (a call raises), "notrack" (the search finds nothing) or   *)
(* "genres" (artist_info.get("genres", [])).                               *)
(***************************************************************************)
RECURSIVE DJOrderFrom(_, _, _)
\* the keys of songs_by_dj in insertion order (lines 355-359)
DJOrderFrom(us, i, acc) ==
    IF i > Len(us) THEN acc
    ELSE IF \E j \in 1..Len(acc) : acc[j] = us[i][3]
         THEN DJOrderFrom(us, i + 1, acc)
         ELSE DJOrderFrom(us, i + 1, Append(acc, us[i][3]))

\* songs_count raised once per tag instead of once per song
AnalyzeSongPerTag(stats, outcome) ==
    IF outcome.kind = "genres" /\ stats.count_type = "int"
    THEN add_genres([stats EXCEPT !.songs_count = @ + Len(outcome.genres)], outcome.genres)
    ELSE stats

\* lines 369-387 for one song
AnalyzeSong(stats, outcome) ==
    IF outcome.kind = "genres"
    THEN IF stats.count_type = "str"
         THEN stats       \* songs_count += 1 raises TypeError, caught at line 385
         ELSE add_genres([stats EXCEPT !.songs_count = @ + 1], outcome.genres)
    ELSE stats

RECURSIVE AnalyzeSongsOf(_, _, _, _, _)
\* the loop of line 368 over the songs of dj
AnalyzeSongsOf(stats, us, results, dj, i) ==
    IF i > Len(us) THEN stats
    ELSE IF us[i][3] = dj
         THEN AnalyzeSongsOf(AnalyzeSong(stats, results[i]), us, results, dj, i + 1)
         ELSE AnalyzeSongsOf(stats, us, results, dj, i + 1)

\* a fresh DJStats for the presenter whether or not the store holds one
ResetDJ(ds, dj) ==
    IF HasKey(ds, dj)
    THEN [i \in 1..Len(ds) |->
             IF ds[i].key = dj THEN [key |-> dj, st |-> NewDJStats(dj)] ELSE ds[i]]
    ELSE Append(ds, [key |-> dj, st |-> NewDJStats(dj)])

\* lines 362-363
EnsureDJ(ds, dj) ==
    IF HasKey(ds, dj) THEN ds ELSE Append(ds, [key |-> dj, st |-> NewDJStats(dj)])

RECURSIVE AnalyzeDJsFrom(_, _, _, _, _)
\* the loop of line 361
AnalyzeDJsFrom(ds, order, us, results, j) ==
    IF j > Len(order) THEN ds
    ELSE LET ds1 == EnsureDJ(ds, order[j])
             ds2 == [i \in 1..Len(ds1) |->
                        IF ds1[i].key = order[j]
                        THEN [ds1[i] EXCEPT
                                 !.st = AnalyzeSongsOf(@, us, results, order[j], 1)]
                        ELSE ds1[i]]
         IN  AnalyzeDJsFrom(ds2, order, us, results, j + 1)

\* analyze_dj_genres
analyze_dj_genres(us, ds, lk) ==
    IF ~lk.available THEN ds
    ELSE AnalyzeDJsFrom(ds, DJOrderFrom(us, 1, <<>>), us, lk.results, 1)

(***************************************************************************)
(* main: the filters                                                       *)
(***************************************************************************)
RECURSIVE InsertByScore(_, _, _)
\* x placed into sorted from position i on, after every element whose score
\* is not lower
InsertByScore(sorted, x, i) ==
    IF i > Len(sorted) THEN Append(sorted, x)
    ELSE IF FracGreater(Score(x), Score(sorted[i]))
         THEN SubSeq(sorted, 1, i - 1) \o <<x>> \o SubSeq(sorted, i, Len(sorted))
         ELSE InsertByScore(sorted, x, i + 1)

RECURSIVE SortedFrom(_, _, _)
SortedFrom(ds, i, acc) ==
    IF i > Len(ds) THEN acc
    ELSE SortedFrom(ds, i + 1, InsertByScore(acc, ds[i].st, 1))

\* sorted(dj_stats.values(), key=lambda x: -x.score): stable, descending
SortedDJs(ds) == SortedFrom(ds, 1, <<>>)

\* sorted(...) raises when a score does
SortRaises(ds) == \E i \in 1..Len(ds) : ScoreRaises(ds[i].st)

Min(a, b) == IF a <= b THEN a ELSE b

\* top_dj_names (line 562)
TopDJNames(ds, n) == {SortedDJs(ds)[i].name : i \in 1..Min(n, Len(ds))}

\* the songs of the top presenters, last song first
FilterTopReversed(us, ds, n) ==
    LET Keep(song) == song[3] \in TopDJNames(ds, n)
        kept == SelectSeq(us, Keep)
    IN  [i \in 1..Len(kept) |-> kept[Len(kept) + 1 - i]]

\* line 569
FilterTop(us, ds, n) ==
    LET Keep(song) == song[3] \in TopDJNames(ds, n)
    IN  SelectSeq(us, Keep)

\* every song kept but those of the avoided presenters
ClassKeepsUnlessAvoided(ds, dj, include_neutral) ==
    IF HasKey(ds, dj)
    THEN Classification(StatsOf(ds, dj)) # "avoided"
    ELSE include_neutral

\* lines 582-592 for one song
ClassKeeps(ds, dj, include_neutral) ==
    IF HasKey(ds, dj)
    THEN \/ Classification(StatsOf(ds, dj)) = "preferred"
         \/ Classification(StatsOf(ds, dj)) = "neutral" /\ include_neutral
    ELSE include_neutral

\* lines 579-594
FilterClass(us, ds, include_neutral) ==
    LET Keep(song) == ClassKeeps(ds, song[3], include_neutral)
    IN  SelectSeq(us, Keep)

\* classification raises for a song of the loop of line 581
FilterClassRaises(us, ds) ==
    \E i \in 1..Len(us) : HasKey(ds, us[i][3]) /\ ScoreRaises(StatsOf(ds, us[i][3]))

\* the classification filter tried before top-N
FilterModeClassFirst(a) ==
    IF a.filter_djs THEN "class"
    ELSE IF a.top_djs > 0 THEN "top"
    ELSE "none"

\* which branch of lines 555-596 runs
FilterMode(a) ==
    IF a.top_djs > 0 THEN "top"
    ELSE IF a.filter_djs THEN "class"
    ELSE "none"

\* the filters without their check for an empty store
FilteredUnchecked(us, ds, a) ==
    IF FilterMode(a) = "top" THEN FilterTop(us, ds, a.top_djs)
    ELSE IF FilterMode(a) = "class" THEN FilterClass(us, ds, a.include_neutral)
    ELSE us

\* unique_songs after lines 554-596
Filtered(us, ds, a) ==
    IF FilterMode(a) = "top"
    THEN IF ds = <<>> THEN us ELSE FilterTop(us, ds, a.top_djs)
    ELSE IF FilterMode(a) = "class"
    THEN IF ds = <<>> THEN us ELSE FilterClass(us, ds, a.include_neutral)
    ELSE us

\* lines 554-596 raise
FilterRaises(us, ds, a) ==
    IF FilterMode(a) = "top" THEN ds # <<>> /\ SortRaises(ds)
    ELSE IF FilterMode(a) = "class" THEN ds # <<>> /\ FilterClassRaises(us, ds)
    ELSE FALSE

(***************************************************************************)
(* main: the output                                                        *)
(***************************************************************************)
\* str.upper() on one character
UpperChar(c) ==
    IF \E i \in 1..26 : LowerSeq[i] = c
    THEN UpperSeq[CHOOSE i \in 1..26 : LowerSeq[i] = c]
    ELSE c

\* str.title(): a letter is upper case after a character that is no letter
Title(s) ==
    [i \in 1..Len(s) |->
        IF i > 1 /\ s[i - 1] \in Letters THEN LowerChar(s[i]) ELSE UpperChar(s[i])]

\* format_song
format_song(artist, title) == Title(artist) \o SongSeparator \o Title(title)

\* unique_songs[:limit] when limit > 0 (lines 599-600)
Limited(us, limit) == IF limit > 0 THEN SubSeq(us, 1, Min(limit, Len(us))) ELSE us

\* the lines written by lines 603-606
OutputLines(us) == [i \in 1..Len(us) |-> format_song(us[i][1], us[i][2])]

(***************************************************************************)
(* Bounds and inputs of main                                               *)
(***************************************************************************)
MaxSongs == 2
MaxTop == 2
MaxRuns == 2

Procs == {1, 2}

Song_AbbaAnn == <<<<"A","b","b","a">>, <<"S","o","s">>, Name_Ann>>
Song_AbbaBob == <<<<"A","B","B","A">>, <<"S","O","S">>, Name_Bob>>
Song_QueenBob == <<<<"Q","u","e","e","n">>, <<"H","i","t">>, Name_Bob>>
Song_BlurCyd == <<<<"B","l","u","r">>, <<"Y","e","s">>, Name_Cyd>>

\* the records scrape_program may return
SongPool == {Song_AbbaAnn, Song_AbbaBob, Song_QueenBob, Song_BlurCyd}

\* the member save_dj_stats writes for a presenter with these counters
StoredEntry(name, songs_count, preferred_score, avoided_score) ==
    to_dict(name, [NewDJStats(name) EXCEPT !.songs_count = songs_count,
                                           !.preferred_score = preferred_score,
                                           !.avoided_score = avoided_score])

\* three presenters scored 0.7, 0.0 and -0.5
File_Scores ==
    JsonFile(<<StoredEntry(Name_Ann, 10, 8, 1), StoredEntry(Name_Bob, 5, 0, 0),
               StoredEntry(Name_Cyd, 10, 0, 5)>>)

\* two presenters with equal scores, and no entry for Ann
File_Ties ==
    JsonFile(<<StoredEntry(Name_Cyd, 4, 1, 1), StoredEntry(Name_Bob, 0, 3, 0)>>)

File_Empty == JsonFile(<<>>)

\* the second member has no "name"
File_NoName ==
    JsonFile(<<StoredEntry(Name_Ann, 10, 8, 1),
               [StoredEntry(Name_Bob, 5, 0, 0) EXCEPT !.has_name = FALSE]>>)

\* "songs_count" holds a string
File_StrCount ==
    JsonFile(<<[StoredEntry(Name_Ann, 0, 8, 1) EXCEPT !.count_kind = "str"]>>)

\* the files a run may find
FilePool ==
    {MissingFile, GarbageFile, File_Empty, File_NoName, File_StrCount,
     File_Scores, File_Ties}

\* the files this program has written, or none
WrittenFilePool == {MissingFile, File_Scores}

DefaultArgs ==
    [show_djs |-> FALSE, analyze_djs |-> FALSE, filter_djs |-> FALSE,
     include_neutral |-> FALSE, top_djs |-> 0, limit |-> 0]

\* the command lines of a run
ArgSpace ==
    {[DefaultArgs EXCEPT !.show_djs = TRUE], [DefaultArgs EXCEPT !.limit = 1]}
    \cup {[DefaultArgs EXCEPT !.analyze_djs = an, !.filter_djs = fi,
                              !.include_neutral = inc, !.top_djs = top] :
            an \in BOOLEAN, fi \in BOOLEAN, inc \in BOOLEAN, top \in 0..MaxTop}

\* the command lines of the runs that build the store
AnalyzeArgSpace ==
    {DefaultArgs, [DefaultArgs EXCEPT !.analyze_djs = TRUE]}

Outcome_Error == [kind |-> "error", genres |-> <<>>]
Outcome_NoTrack == [kind |-> "notrack", genres |-> <<>>]
Outcome_Genres(gs) == [kind |-> "genres", genres |-> gs]

\* lookup outcomes
OutcomePool == {Outcome_Error, Outcome_Genres(<<Tag_IndieRock>>)}
LedgerOutcomePool ==
    {Outcome_Error, Outcome_NoTrack, Outcome_Genres(<<>>),
     Outcome_Genres(<<Tag_IndieRock, Tag_Trap>>)}
LedgerSongLists ==
    {<<>>, <<Song_AbbaAnn>>, <<Song_QueenBob, Song_BlurCyd>>}

NoLookups == [available |-> FALSE, results |-> <<>>]
NoOutput == [written |-> FALSE, lines |-> <<>>]

\* the lookups of n songs
LookupSpace(n, outcomes) ==
    {NoLookups} \cup {[available |-> TRUE, results |-> r] : r \in [1..n -> outcomes]}

(***************************************************************************)
(* main                                                                    *)
(***************************************************************************)
MainInit(files) ==
    /\ file \in files
    /\ pc = [p \in Procs |-> "idle"]
    /\ args = [p \in Procs |-> DefaultArgs]
    /\ loaded = [p \in Procs |-> <<>>]
    /\ dj_stats = [p \in Procs |-> <<>>]
    /\ scraped = [p \in Procs |-> <<>>]
    /\ unique_songs = [p \in Procs |-> <<>>]
    /\ lookups = [p \in Procs |-> NoLookups]
    /\ output = [p \in Procs |-> NoOutput]
    /\ runs = 0

\* the positions at which a run ends by an exception that main does not catch
Raised == {"show_raised", "save_raised", "filter_raised", "write_raised"}

Ended(p) == pc[p] \in {"done"} \cup Raised

\* lines 512-515: a run starts, parses its command line and loads the store
Start(p, argSpace, maxRuns) ==
    /\ pc[p] = "idle" \/ Ended(p)
    /\ runs < maxRuns
    /\ runs' = runs + 1
    /\ \E a \in argSpace : args' = [args EXCEPT ![p] = a]
    /\ loaded' = [loaded EXCEPT ![p] = load_dj_stats(file)]
    /\ dj_stats' = [dj_stats EXCEPT ![p] = load_dj_stats(file)]
    /\ scraped' = [scraped EXCEPT ![p] = <<>>]
    /\ unique_songs' = [unique_songs EXCEPT ![p] = <<>>]
    /\ lookups' = [lookups EXCEPT ![p] = NoLookups]
    /\ output' = [output EXCEPT ![p] = NoOutput]
    /\ pc' = [pc EXCEPT ![p] = "loaded"]
    /\ UNCHANGED <<file, scanVars, unitVars>>

\* lines 518-523: --show-djs prints the store and returns
ShowDJs(p) ==
    /\ pc[p] = "loaded"
    /\ args[p].show_djs
    /\ pc' = [pc EXCEPT ![p] =
                 IF dj_stats[p] # <<>> /\ SortRaises(dj_stats[p]) THEN "show_raised" ELSE "done"]
    /\ UNCHANGED <<file, args, loaded, dj_stats, scraped, unique_songs, lookups, output, runs,
                   scanVars, unitVars>>

\* line 526: scrape_program returns its records
Scrape(p, songLists) ==
    /\ pc[p] = "loaded"
    /\ ~args[p].show_djs
    /\ \E ss \in songLists : scraped' = [scraped EXCEPT ![p] = ss]
    /\ pc' = [pc EXCEPT ![p] = "scraped"]
    /\ UNCHANGED <<file, args, loaded, dj_stats, unique_songs, lookups, output, runs,
                   scanVars, unitVars>>

\* lines 528-545: duplicates are removed
DedupeStep(p) ==
    /\ pc[p] = "scraped"
    /\ unique_songs' = [unique_songs EXCEPT ![p] = Dedupe(scraped[p])]
    /\ pc' = [pc EXCEPT ![p] = "deduped"]
    /\ UNCHANGED <<file, args, loaded, dj_stats, scraped, lookups, output, runs,
                   scanVars, unitVars>>

\* line 548 without --analyze-djs
SkipAnalyze(p) ==
    /\ pc[p] = "deduped"
    /\ ~args[p].analyze_djs
    /\ pc' = [pc EXCEPT ![p] = "analyzed"]
    /\ UNCHANGED <<file, args, loaded, dj_stats, scraped, unique_songs, lookups, output, runs,
                   scanVars, unitVars>>

\* line 549: analyze_dj_genres updates dj_stats
AnalyzeStep(p, outcomes) ==
    /\ pc[p] = "deduped"
    /\ args[p].analyze_djs
    /\ \E lk \in LookupSpace(Len(unique_songs[p]), outcomes) :
          /\ lookups' = [lookups EXCEPT ![p] = lk]
          /\ dj_stats' = [dj_stats EXCEPT
                             ![p] = analyze_dj_genres(unique_songs[p], @, lk)]
    /\ pc' = [pc EXCEPT ![p] = "saving"]
    /\ UNCHANGED <<file, args, loaded, scraped, unique_songs, output, runs,
                   scanVars, unitVars>>

\* lines 550-552: save_dj_stats writes the store, or to_dict raises
SaveStep(p) ==
    /\ pc[p] = "saving"
    /\ IF SaveRaises(dj_stats[p])
       THEN /\ pc' = [pc EXCEPT ![p] = "save_raised"]
            /\ UNCHANGED file
       ELSE /\ pc' = [pc EXCEPT ![p] = "analyzed"]
            /\ file' = save_dj_stats(dj_stats[p])
    /\ UNCHANGED <<args, loaded, dj_stats, scraped, unique_songs, lookups, output, runs,
                   scanVars, unitVars>>

\* lines 554-596: the filter the command line asks for
FilterStep(p) ==
    /\ pc[p] = "analyzed"
    /\ IF FilterRaises(unique_songs[p], dj_stats[p], args[p])
       THEN /\ pc' = [pc EXCEPT ![p] = "filter_raised"]
            /\ UNCHANGED unique_songs
       ELSE /\ pc' = [pc EXCEPT ![p] = "filtered"]
            /\ unique_songs' = [unique_songs EXCEPT
                                   ![p] = Filtered(@, dj_stats[p], args[p])]
    /\ UNCHANGED <<file, args, loaded, dj_stats, scraped, lookups, output, runs,
                   scanVars, unitVars>>

\* lines 598-608: the limit, and the songs written to the output file
WriteOutput(p) ==
    /\ pc[p] = "filtered"
    /\ unique_songs' = [unique_songs EXCEPT ![p] = Limited(@, args[p].limit)]
    /\ output' = [output EXCEPT
                     ![p] = [written |-> TRUE, lines |-> OutputLines(unique_songs'[p])]]
    /\ pc' = [pc EXCEPT ![p] = "done"]
    /\ UNCHANGED <<file, args, loaded, dj_stats, scraped, lookups, runs, scanVars, unitVars>>

\* line 603: the output file cannot be opened
WriteRaises(p) ==
    /\ pc[p] = "filtered"
    /\ unique_songs' = [unique_songs EXCEPT ![p] = Limited(@, args[p].limit)]
    /\ pc' = [pc EXCEPT ![p] = "write_raised"]
    /\ UNCHANGED <<file, args, loaded, dj_stats, scraped, lookups, output, runs,
                   scanVars, unitVars>>

(***************************************************************************)
(* Specifications                                                          *)
(***************************************************************************)
\* one run of main, from any file
Init == ScanInit /\ UnitIdle /\ MainInit(FilePool)

Next ==
    \/ Start(1, ArgSpace, 1)
    \/ ShowDJs(1)
    \/ Scrape(1, SeqsUpTo(SongPool, MaxSongs))
    \/ DedupeStep(1)
    \/ SkipAnalyze(1)
    \/ AnalyzeStep(1, OutcomePool)
    \/ SaveStep(1)
    \/ FilterStep(1)
    \/ WriteOutput(1)
    \/ WriteRaises(1)

Spec == Init /\ [][Next]_vars

\* scrape_program on its own
InitScan == ScanInit /\ UnitIdle /\ MainInit({MissingFile})

SpecScan == InitScan /\ [][NextScan]_vars

\* one call of add_genres
InitGenres == ScanInit /\ GenresInit /\ MainInit({MissingFile})

NextGenres == UAddGenres

SpecGenres == InitGenres /\ [][NextGenres]_vars

\* one read of score and classification
InitClassify == ScanInit /\ ClassifyInit /\ MainInit({MissingFile})

NextClassify == UClassify

SpecClassify == InitClassify /\ [][NextClassify]_vars

\* successive runs of one process that build the store
InitLedger == ScanInit /\ UnitIdle /\ MainInit(WrittenFilePool)

NextLedger ==
    \/ Start(1, AnalyzeArgSpace, MaxRuns)
    \/ Scrape(1, LedgerSongLists)
    \/ DedupeStep(1)
    \/ SkipAnalyze(1)
    \/ AnalyzeStep(1, LedgerOutcomePool)
    \/ SaveStep(1)
    \/ FilterStep(1)
    \/ WriteOutput(1)

SpecLedger == InitLedger /\ [][NextLedger]_vars

(***************************************************************************)
(* Properties of the slot scan                                             *)
(***************************************************************************)
\* the header detector accepts the line
IsHeaderLine(l) == extract_dj_name(Strip(l)) # None

\* the line is no header and the line classifier accepts it
IsSongLine(l) == ~IsHeaderLine(l) /\ parse_song_line(Strip(l)) # None

\* the song lines among the first n lines
SongLinesUpTo(n) == {j \in 1..n : IsSongLine(lines[j])}

\* the header lines above line j
HeadersBefore(j) == {h \in 1..(j - 1) : IsHeaderLine(lines[h])}

\* the k-th smallest element of S
NthOf(S, k) == CHOOSE j \in S : Cardinality({i \in S : i < j}) = k - 1

MaxOf(S) == CHOOSE x \in S : \A y \in S : y <= x

InLineScan == spc \in {"scan", "scanned"}

\* C1: in the line scan the emitted records are, in order, the song lines
\* processed so far, and each record of a song line that has a header line
\* above it carries the name extracted from the nearest such header line.
C1_SequentialAttribution ==
    InLineScan =>
        LET S == SongLinesUpTo(line_i)
        IN  /\ Len(songs) = Cardinality(S)
            /\ \A k \in 1..Len(songs) :
                  LET j == NthOf(S, k)
                  IN  /\ <<songs[k][1], songs[k][2]>> = parse_song_line(lines[j])
                      /\ HeadersBefore(j) # {} =>
                            songs[k][3] = extract_dj_name(lines[MaxOf(HeadersBefore(j))])

\* a song line below two header lines has been scanned and attributed to the
\* lower one
C1_Witness ==
    /\ spc = "scanned"
    /\ lines = <<Line_Ann, Line_Bob, Line_Abba>>
    /\ songs = << <<SubSeq(Line_Abba, 1, 4), SubSeq(Line_Abba, 8, 10), Name_Bob>> >>

\* C2: in the line scan every record of a song line that has no header line
\* above it carries the presenter "Unknown".
C2_UnknownBeforeFirstHeader ==
    InLineScan =>
        LET S == SongLinesUpTo(line_i)
        IN  \A k \in 1..Len(songs) :
               k <= Cardinality(S) /\ HeadersBefore(NthOf(S, k)) = {} =>
                   songs[k][3] = Unknown

(***************************************************************************)
(* Properties of deduplication                                             *)
(***************************************************************************)
\* equal artist and title, ignoring case
SameSong(a, b) == Lower(a[1]) = Lower(b[1]) /\ Lower(a[2]) = Lower(b[2])

\* the positions of ss that hold the first record of their song
FirstOccurrences(ss) ==
    {i \in 1..Len(ss) : \A j \in 1..(i - 1) : ~SameSong(ss[j], ss[i])}

\* the subsequence of ss at the positions I
Restrict(ss, I) == [k \in 1..Cardinality(I) |-> ss[NthOf(I, k)]]

\* the deduplicated list of ss
Deduplicated(ss) == Restrict(ss, FirstOccurrences(ss))

\* C3: the deduplicated list holds no two records of the same song ignoring
\* case, it is the subsequence of the scraped list made of the first record
\* of every song, and deduplicating it again changes nothing.
C3_DedupeFirstSeen ==
    pc[1] \in {"deduped", "saving", "analyzed"} =>
        LET u == unique_songs[1]
        IN  /\ \A i \in 1..Len(u) : \A j \in 1..Len(u) :
                  i < j => ~SameSong(u[i], u[j])
            /\ u = Deduplicated(scraped[1])
            /\ Dedupe(u) = u

\* the same song scraped under two presenters: only the first record is kept
C3_Witness ==
    /\ pc[1] = "deduped"
    /\ scraped[1] = <<Song_AbbaAnn, Song_AbbaBob>>
    /\ unique_songs[1] = <<Song_AbbaAnn>>

(***************************************************************************)
(* Properties of DJStats                                                   *)
(***************************************************************************)
\* the tag contains a term of the list
MatchesAny(terms, tag) == \E k \in 1..Len(terms) : Contains(tag, terms[k])

\* the positions of the tags of gs that satisfy Test
TagsWhere(gs, Test(_)) == {i \in 1..Len(gs) : Test(Lower(gs[i]))}

\* C4: add_genres raises genre_counts[lowercased tag] by one per tag,
\* preferred_score by one per tag that contains a PREFERRED term, avoided_score
\* by one per tag that contains an AVOIDED term, and nothing else.
C4_AddGenresCounts ==
    [][(upc = "call" /\ upc' = "ret") =>
          LET IsPreferred(tag) == MatchesAny(PREFERRED_GENRES, tag)
              IsAvoided(tag) == MatchesAny(AVOIDED_GENRES, tag)
              tags == {Lower(ugenres[i]) : i \in 1..Len(ugenres)}
          IN  /\ DOMAIN ustats'.genre_counts = (DOMAIN ustats.genre_counts) \cup tags
              /\ \A g \in DOMAIN ustats'.genre_counts :
                    LET Is(tag) == tag = g
                    IN  ustats'.genre_counts[g] =
                           GenreCount(ustats.genre_counts, g)
                              + Cardinality(TagsWhere(ugenres, Is))
              /\ ustats'.preferred_score =
                    ustats.preferred_score + Cardinality(TagsWhere(ugenres, IsPreferred))
              /\ ustats'.avoided_score =
                    ustats.avoided_score + Cardinality(TagsWhere(ugenres, IsAvoided))
              /\ ustats'.songs_count = ustats.songs_count
              /\ ustats'.name = ustats.name]_vars

\* add_genres has counted a tag with two preferred terms, a tag with a term
\* of each list and a tag with two avoided terms
C4_Witness ==
    /\ upc = "ret"
    /\ ugenres = <<Tag_IndieRock, Tag_RapRock, Tag_Trap>>
    /\ ustats.preferred_score = 2
    /\ ustats.avoided_score = 2
    /\ ustats.genre_counts[Lower(Tag_IndieRock)] = 1

\* C6: with songs_count = 0 the score is 0 and the class neutral; otherwise
\* the class is preferred iff (preferred_score - avoided_score) / songs_count
\* > 0.1, avoided iff that ratio < -0.1, neutral in every other case.
C6_Classification ==
    upc = "ret" =>
        LET s == ustats.songs_count
            d == ustats.preferred_score - ustats.avoided_score
        IN  /\ s = 0 => uscore[1] = 0 /\ uclass = "neutral"
            /\ s > 0 => /\ uscore[1] * s = d * uscore[2]
                        /\ uclass = "preferred" <=> 10 * d > s
                        /\ uclass = "avoided" <=> 10 * d < -s
                        /\ uclass = "neutral" <=> (10 * d <= s /\ 10 * d >= -s)
            /\ (s = 10 /\ ustats.preferred_score = 8 /\ ustats.avoided_score = 1)
                  => uclass = "preferred"
            /\ (s = 10 /\ d = 1) => uclass = "neutral"
            /\ (s = 10 /\ d = -1) => uclass = "neutral"

\* a ratio of exactly 0.1 has been classified neutral
C6_Witness ==
    /\ upc = "ret"
    /\ ustats.songs_count = 10
    /\ ustats.preferred_score = 1
    /\ ustats.avoided_score = 0
    /\ uclass = "neutral"

(***************************************************************************)
(* Properties of the stats store                                           *)
(***************************************************************************)
\* the member e2 holds no counter below that of e1
CountersGrow(e1, e2) ==
    /\ e2.songs_count >= e1.songs_count
    /\ e2.preferred_score >= e1.preferred_score
    /\ e2.avoided_score >= e1.avoided_score
    /\ \A g \in DOMAIN e1.genre_counts :
          g \in DOMAIN e2.genre_counts /\ e2.genre_counts[g] >= e1.genre_counts[g]

\* C5: over successive runs every presenter of the persisted store stays in
\* it and none of its counters decreases.
C5_LedgerGrows ==
    [][file.kind = "json" =>
          /\ file'.kind = "json"
          /\ \A i \in 1..Len(file.entries) :
                \E j \in 1..Len(file'.entries) :
                   /\ file'.entries[j].key = file.entries[i].key
                   /\ CountersGrow(file.entries[i], file'.entries[j])]_vars

\* a second analyze run has saved a store in which a presenter of the first
\* store has grown
C5_Witness ==
    /\ runs = 2
    /\ pc[1] = "analyzed"
    /\ args[1].analyze_djs
    /\ file.kind = "json"
    /\ \E i \in 1..Len(file.entries) :
          /\ file.entries[i].key = Name_Ann
          /\ file.entries[i].songs_count = 12
          /\ file.entries[i].preferred_score = 10

\* the file holds no JSON object, or a member that is not a well-formed entry
CorruptFile(f) ==
    \/ f.kind \in {"missing", "garbage"}
    \/ \E i \in 1..Len(f.entries) :
          ~f.entries[i].has_name \/ f.entries[i].count_kind = "str"

\* C10: right after the load of a missing, unparsable or malformed file the
\* store is empty, and no step of a run that found such a file raises on the
\* store.
C10_CorruptLoadsEmpty ==
    CorruptFile(file) =>
        /\ pc[1] = "loaded" => dj_stats[1] = <<>>
        /\ pc[1] \notin {"show_raised", "save_raised", "filter_raised"}

(***************************************************************************)
(* Properties of the filters                                               *)
(***************************************************************************)
\* the sets of n positions of ds (all of them when ds is shorter) whose
\* scores are not below the score of any other position
TopSets(ds, n) ==
    {I \in SUBSET (1..Len(ds)) :
        /\ Cardinality(I) = Min(n, Len(ds))
        /\ \A i \in I : \A j \in (1..Len(ds)) \ I :
              ~FracGreater(Score(ds[j].st), Score(ds[i].st))}

\* the records of ss whose presenter is one of names
KeptBy(ss, names) == Restrict(ss, {i \in 1..Len(ss) : ss[i][3] \in names})

\* C7: with stats and N > 0 the kept songs are the deduplicated songs whose
\* presenter is one of N presenters of the store that no other presenter
\* outscores, whether or not the classification filter is requested too.
C7_TopN ==
    (pc[1] = "filtered" /\ args[1].top_djs > 0 /\ dj_stats[1] # <<>>) =>
        LET ds == dj_stats[1]
        IN  /\ \E I \in TopSets(ds, args[1].top_djs) :
                  unique_songs[1] =
                     KeptBy(Deduplicated(scraped[1]), {ds[i].st.name : i \in I})
            /\ \A k \in 1..Len(unique_songs[1]) :
                  \E i \in 1..Len(ds) : ds[i].st.name = unique_songs[1][k][3]

\* top-2 and the classification filter requested together on the store scored
\* 0.7, 0.0, -0.5: the song of the neutral presenter is kept
C7_Witness ==
    /\ pc[1] = "filtered"
    /\ args[1].top_djs = 2
    /\ args[1].filter_djs
    /\ ~args[1].include_neutral
    /\ ~args[1].analyze_djs
    /\ file = File_Scores
    /\ scraped[1] = <<Song_QueenBob, Song_BlurCyd>>
    /\ unique_songs[1] = <<Song_QueenBob>>

\* the rule of the classification filter for one record
KeepRule(ds, song, include_neutral) ==
    \/ HasKey(ds, song[3]) /\ Classification(StatsOf(ds, song[3])) = "preferred"
    \/ /\ include_neutral
       /\ \/ ~HasKey(ds, song[3])
          \/ Classification(StatsOf(ds, song[3])) = "neutral"

\* the deduplicated songs the rule keeps
KeptByRule(p) ==
    LET d == Deduplicated(scraped[p])
    IN  Restrict(d, {i \in 1..Len(d) :
                        KeepRule(dj_stats[p], d[i], args[p].include_neutral)})

\* no kept record is of an avoided presenter
NoAvoidedKept(p) ==
    \A k \in 1..Len(unique_songs[p]) :
       ~(/\ HasKey(dj_stats[p], unique_songs[p][k][3])
         /\ Classification(StatsOf(dj_stats[p], unique_songs[p][k][3])) = "avoided")

\* C8 as stated: in every run that requested the classification filter the
\* kept songs are those of the rule, and none is of an avoided presenter.
C8_EveryRequestingRun ==
    (pc[1] = "filtered" /\ args[1].filter_djs) =>
        unique_songs[1] = KeptByRule(1) /\ NoAvoidedKept(1)

\* C8: when the classification filter is requested without top-N and the
\* stats are not empty, the kept songs are those of the rule, and none is of
\* an avoided presenter.
C8_ClassificationFilter ==
    (/\ pc[1] = "filtered"
     /\ args[1].filter_djs
     /\ args[1].top_djs = 0
     /\ dj_stats[1] # <<>>) =>
        unique_songs[1] = KeptByRule(1) /\ NoAvoidedKept(1)

\* the classification filter with the inclusion flag has kept the song of a
\* neutral presenter and dropped the song of an avoided one
C8_Witness ==
    /\ pc[1] = "filtered"
    /\ args[1].filter_djs
    /\ args[1].include_neutral
    /\ args[1].top_djs = 0
    /\ ~args[1].analyze_djs
    /\ file = File_Scores
    /\ scraped[1] = <<Song_QueenBob, Song_BlurCyd>>
    /\ unique_songs[1] = <<Song_QueenBob>>

FilterRequested(p) == args[p].top_djs > 0 \/ args[p].filter_djs

\* C9 as stated: a run that requested a filter and loaded an empty store does
\* not raise in the filter and passes the deduplicated list on unchanged.
C9_LoadedStoreEmpty ==
    (FilterRequested(1) /\ loaded[1] = <<>>) =>
        /\ pc[1] # "filter_raised"
        /\ pc[1] = "filtered" => unique_songs[1] = Deduplicated(scraped[1])

\* C9: a run that requested a filter and holds no stats when the filter runs
\* does not raise in the filter and passes the deduplicated list on unchanged.
C9_NoStatsNoFilter ==
    (FilterRequested(1) /\ dj_stats[1] = <<>>) =>
        /\ pc[1] # "filter_raised"
        /\ pc[1] = "filtered" => unique_songs[1] = Deduplicated(scraped[1])

\* top-1 requested with no store: the two scraped songs are passed on
C9_Witness ==
    /\ pc[1] = "filtered"
    /\ args[1].top_djs = 1
    /\ file = MissingFile
    /\ dj_stats[1] = <<>>
    /\ scraped[1] = <<Song_AbbaAnn, Song_BlurCyd>>
    /\ unique_songs[1] = <<Song_AbbaAnn, Song_BlurCyd>>

(***************************************************************************)
(* Properties of a run on an empty input                                   *)
(***************************************************************************)
\* C11: a run whose scrape returned no record does not end normally with its
\* output file written.
C11_EmptyInputFails ==
    ~(/\ pc[1] = "done"
      /\ ~args[1].show_djs
      /\ scraped[1] = <<>>
      /\ output[1].written)

(***************************************************************************)
(* parse_song_line on its own: one call on a line built from two parts     *)
(***************************************************************************)
Artist_Abba == <<"A","b","b","a">>
Artist_Padded == <<" ","A","b"," ">>
Artist_OneLetter == <<" "," ","x">>
Artist_Clock == <<"6",".","0","0"," ","x">>
Artist_Dashed == <<"A","b"," ","-"," ","C","d">>
Artist_Brace == <<"a","{">>
Artist_Hyphen == <<"-","a">>
Artist_Label == <<"Z","o","b","r","a","z","i","t"," ","x">>
Artist_Width == <<"W","i","d","t","h">>
\* an artist of the greatest accepted length
Artist_Longest == [i \in 1..100 |-> "a"]

Title_Sos == <<"S","o","s">>
Title_FillMeIn == <<"F","i","l","l"," ","M","e"," ","I","n">>
Title_Padded == <<" ","y">>
Title_YesNo == <<"Y","e","s"," ","-"," ","N","o">>
Title_Hyphen == <<"x","-","y">>
Title_Hit2 == <<"H","i","t"," ","2">>
\* a title of the greatest accepted length
Title_Longest == [i \in 1..150 |-> "b"]

ArtistPool == {Artist_Abba, Artist_Padded, Artist_OneLetter, Artist_Clock, Artist_Dashed, Artist_Brace, Artist_Hyphen, Artist_Label, Artist_Width,
               Artist_Longest}
TitlePool == {Title_Sos, Title_FillMeIn, Title_Padded, Title_YesNo, Title_Hyphen, Title_Hit2,
              Title_Longest}

\* the line the two parts are joined into
JoinedLine(artist, title) == artist \o SongSeparator \o title

\* two parts, before parse_song_line is called on their line
ParseInit ==
    /\ upc = "call"
    /\ ustats = NewDJStats(Name_Ann)
    /\ ugenres = <<>>
    /\ uscore = <<0, 1>>
    /\ uclass = ""
    /\ uartist \in ArtistPool
    /\ utitle \in TitlePool
    /\ uparsed = <<>>

\* parse_song_line(artist + " - " + title)
UParse ==
    /\ upc = "call"
    /\ uparsed' = parse_song_line(JoinedLine(uartist, utitle))
    /\ upc' = "ret"
    /\ UNCHANGED <<ustats, ugenres, uscore, uclass, uartist, utitle, scanVars, mainVars>>

InitParse == ScanInit /\ ParseInit /\ MainInit({MissingFile})

NextParse == UParse

SpecParse == InitParse /\ [][NextParse]_vars

(***************************************************************************)
(* Properties of the line classifier                                       *)
(***************************************************************************)
\* a character that is neither a word character nor white space
IsPunct(c) == c \notin WordChars /\ ~IsSpace(c)

HasNonPunct(s) == \E i \in 1..Len(s) : ~IsPunct(s[i])

\* the two parts are within the lengths and hold a non-punctuation character
PartsInRange(a, t) ==
    /\ 2 <= Len(a) /\ Len(a) <= 100
    /\ 2 <= Len(t) /\ Len(t) <= 150
    /\ HasNonPunct(a) /\ HasNonPunct(t)

\* the noise patterns, read on the trimmed line
LeadingClock(l) ==
    \E n \in {1, 2} :
       /\ Len(l) >= n + 3
       /\ \A i \in 1..n : l[i] \in Digits
       /\ l[n + 1] \in {":", "."}
       /\ l[n + 2] \in Digits /\ l[n + 3] \in Digits

HasToken(l, tok) ==
    \E i \in 1..(Len(l) - Len(tok) + 1) : SubSeq(l, i, i + Len(tok) - 1) = tok

LeadingToken(l, tok) == Len(l) >= Len(tok) /\ SubSeq(l, 1, Len(tok)) = tok

NoiseLine(l) ==
    \/ LeadingClock(l)
    \/ LeadingToken(l, Str_http) \/ LeadingToken(l, Str_https)
    \/ l # <<>> /\ \A i \in 1..Len(l) : l[i] \in Digits
    \/ \E i \in 1..Len(l) : l[i] = "{" \/ l[i] = "}"
    \/ LeadingToken(l, Str_Zobrazit)
    \/ l # <<>> /\ \A i \in 1..Len(l) : l[i] = Cart
    \/ HasToken(l, Str_Stroke) \/ HasToken(l, Str_Fill) \/ HasToken(l, Str_Width)

\* no separator starts inside the trimmed left part
JoinIsFirstSeparator(a, t) ==
    \A i \in SkipSpaces(a, 1)..Len(a) : ~MatchAt(JoinedLine(a, t), SongSeparator, i)

\* the trimmed part has two characters or more, one of them a word character
TrimmedPartOk(s) ==
    /\ Len(Strip(s)) >= 2
    /\ \E i \in 1..Len(Strip(s)) : Strip(s)[i] \in WordChars

\* C12 as stated: every line joined from two parts that are within the
\* lengths and hold a non-punctuation character is classified as the song of
\* the two trimmed parts.
C12_EveryPairAccepted ==
    (upc = "ret" /\ PartsInRange(uartist, utitle)) =>
        uparsed = <<Strip(uartist), Strip(utitle)>>

\* C12: a line joined from two parts within the lengths is classified as the
\* song of the two trimmed parts when the trimmed line matches no noise
\* pattern, the joining separator is the first one of the trimmed line, and
\* each trimmed part has two characters or more with a word character.
C12_CleanPairAccepted ==
    (/\ upc = "ret"
     /\ PartsInRange(uartist, utitle)
     /\ ~NoiseLine(Strip(JoinedLine(uartist, utitle)))
     /\ JoinIsFirstSeparator(uartist, utitle)
     /\ TrimmedPartOk(uartist)
     /\ TrimmedPartOk(utitle)) =>
        uparsed = <<Strip(uartist), Strip(utitle)>>

\* an artist of 100 characters and a title of 150 have been accepted
C12_Witness ==
    /\ upc = "ret"
    /\ uartist = Artist_Longest
    /\ utitle = Title_Longest
    /\ uparsed = <<Artist_Longest, Title_Longest>>

(***************************************************************************)
(* Properties of header lines in the line scan                             *)
(***************************************************************************)
\* the line scan reads its next line, and the header detector accepts it
ReadsHeaderLine ==
    /\ spc = "scan"
    /\ line_i < Len(lines)
    /\ line_i' = line_i + 1
    /\ IsHeaderLine(lines[line_i + 1])

\* C13: a step of the line scan on a line that the header detector accepts
\* emits no record and sets the current presenter to the name detected.
C13_HeaderNeverEmitted ==
    [][ReadsHeaderLine =>
          /\ songs' = songs
          /\ current_dj' = extract_dj_name(lines[line_i + 1])]_vars

\* a header line that holds the separator has been read from the page text:
\* the presenter is its name and no record was emitted
C13_Witness ==
    /\ spc = "scan"
    /\ articles = <<>>
    /\ line_i = 1
    /\ lines[1] = Line_Ann
    /\ Contains(lines[1], SongSeparator)
    /\ current_dj = Name_Ann
    /\ songs = <<>>

(***************************************************************************)
(* One analyze run on a batch                                              *)
(***************************************************************************)
\* the batches of one analyze run
BatchPool ==
    {<<Song_AbbaAnn>>,
     <<Song_AbbaAnn, Song_AbbaBob>>,
     <<Song_AbbaBob, Song_QueenBob>>,
     <<Song_AbbaBob, Song_BlurCyd, Song_QueenBob>>}

InitAnalyze == ScanInit /\ UnitIdle /\ MainInit(WrittenFilePool)

NextAnalyze ==
    \/ Start(1, {[DefaultArgs EXCEPT !.analyze_djs = TRUE]}, 1)
    \/ Scrape(1, BatchPool)
    \/ DedupeStep(1)
    \/ AnalyzeStep(1, LedgerOutcomePool)
    \/ SaveStep(1)
    \/ FilterStep(1)
    \/ WriteOutput(1)

SpecAnalyze == InitAnalyze /\ [][NextAnalyze]_vars

(***************************************************************************)
(* Properties of the genre analysis                                        *)
(***************************************************************************)
PresenterNames == {Name_Ann, Name_Bob, Name_Cyd, Unknown}

\* the counters of presenter d, all zero when the store does not hold d
CountersOf(ds, d) == IF HasKey(ds, d) THEN StatsOf(ds, d) ELSE NewDJStats(d)

\* the songs of d in the batch whose lookup returned a genre list
Succeeded(us, lk, d) ==
    {i \in 1..Len(us) : us[i][3] = d /\ lk.available /\ lk.results[i].kind = "genres"}

\* the tags, as <<song, position>>, of the succeeded songs of d that satisfy Test
SucceededTags(us, lk, d, Test(_)) ==
    {x \in Succeeded(us, lk, d) \X (1..MaxTags) :
        /\ x[2] <= Len(lk.results[x[1]].genres)
        /\ Test(Lower(lk.results[x[1]].genres[x[2]]))}

\* C14: the analysis of a batch raises each presenter's songs_count by the
\* number of its songs whose lookup returned genres, and its scores and
\* genre counts by the tags of those songs only; the songs whose lookup
\* failed add nothing and stop nothing.
C14_CountsPerSucceededSong ==
    [][(pc[1] = "deduped" /\ pc'[1] = "saving") =>
          \A d \in PresenterNames :
             LET old == CountersOf(dj_stats[1], d)
                 new == CountersOf(dj_stats'[1], d)
                 us == unique_songs[1]
                 lk == lookups'[1]
                 IsPreferred(tag) == MatchesAny(PREFERRED_GENRES, tag)
                 IsAvoided(tag) == MatchesAny(AVOIDED_GENRES, tag)
             IN  /\ new.songs_count = old.songs_count + Cardinality(Succeeded(us, lk, d))
                 /\ new.preferred_score =
                       old.preferred_score
                       + Cardinality(SucceededTags(us, lk, d, IsPreferred))
                 /\ new.avoided_score =
                       old.avoided_score + Cardinality(SucceededTags(us, lk, d, IsAvoided))
                 /\ \A g \in (DOMAIN old.genre_counts) \cup (DOMAIN new.genre_counts)
                             \cup {Lower(t) : t \in TagPool} :
                       LET IsG(tag) == tag = g
                       IN  GenreCount(new.genre_counts, g) =
                              GenreCount(old.genre_counts, g)
                              + Cardinality(SucceededTags(us, lk, d, IsG))]_vars

\* a batch from an empty store: the first song of Bob failed, the song of Cyd
\* returned no genre, the second song of Bob returned two genres
C14_Witness ==
    /\ pc[1] = "saving"
    /\ loaded[1] = <<>>
    /\ unique_songs[1] = <<Song_AbbaBob, Song_BlurCyd, Song_QueenBob>>
    /\ lookups[1].available
    /\ lookups[1].results =
          <<Outcome_Error, Outcome_Genres(<<>>), Outcome_Genres(<<Tag_IndieRock, Tag_Trap>>)>>
    /\ CountersOf(dj_stats[1], Name_Bob).songs_count = 1
    /\ CountersOf(dj_stats[1], Name_Bob).preferred_score = 1
    /\ CountersOf(dj_stats[1], Name_Bob).avoided_score = 1
    /\ CountersOf(dj_stats[1], Name_Cyd).songs_count = 1
    /\ CountersOf(dj_stats[1], Name_Cyd).genre_counts = <<>>

(***************************************************************************)
(* save_dj_stats step by step, for runs that overlap                       *)
(*                                                                         *)
(* open(DJ_STATS_FILE, "w") empties the file; the text is written at       *)
(* offset 0 when the file is closed (the text of a store is far below the  *)
(* buffer size).  A write onto a text that another run has written since   *)
(* the open replaces only as many bytes as it writes, so the tail of a     *)
(* longer text stays behind the writer's closing brace and json.load       *)
(* rejects the file.                                                       *)
(***************************************************************************)
\* the file right after open(..., "w")
EmptyFile == [kind |-> "empty", entries |-> <<>>]

\* UTF-8 bytes of one character inside a JSON string (ensure_ascii=False)
CharBytes(c) ==
    IF c = EnDash THEN 3
    ELSE IF c = Cart THEN 4
    ELSE IF c \in {"\"", "\\", "\n", "\t", "\r"} THEN 2
    ELSE 1

RECURSIVE StrBytesFrom(_, _)
StrBytesFrom(s, i) == IF i > Len(s) THEN 0 ELSE CharBytes(s[i]) + StrBytesFrom(s, i + 1)

\* bytes of a JSON string with its quotes
StrBytes(s) == 2 + StrBytesFrom(s, 1)

RECURSIVE DigitCount(_)
DigitCount(n) == IF n < 10 THEN 1 ELSE 1 + DigitCount(n \div 10)

\* bytes of a JSON integer
IntBytes(n) == IF n < 0 THEN 1 + DigitCount(-n) ELSE DigitCount(n)

RECURSIVE Pow10(_)
Pow10(k) == IF k = 0 THEN 1 ELSE 10 * Pow10(k - 1)

\* bytes of repr(float) for a reduced quotient with a finite decimal expansion
\* of at most four places (the quotients of the runs modelled here)
FloatBytes(f) ==
    LET k == CHOOSE j \in 0..4 : Pow10(j) % f[2] = 0 /\ \A i \in 0..(j - 1) : Pow10(i) % f[2] # 0
        places == IF k = 0 THEN 1 ELSE k
    IN  (IF f[1] < 0 THEN 1 ELSE 0) + DigitCount(Abs(f[1]) \div f[2]) + 1 + places

RECURSIVE GenreBytesFrom(_, _)
\* the members of genre_counts, each on its line at indent 6, with separators
GenreBytesFrom(gc, todo) ==
    IF todo = {} THEN 0
    ELSE LET g == CHOOSE x \in todo : TRUE
         IN  6 + StrBytes(g) + 2 + IntBytes(gc[g]) + 2 + GenreBytesFrom(gc, todo \ {g})

\* bytes of the genre_counts value
GenreCountsBytes(gc) ==
    IF DOMAIN gc = {} THEN 2
    ELSE 1 + GenreBytesFrom(gc, DOMAIN gc) + 5

\* bytes of the classification string with its quotes
ClassBytes(c) == IF c = "preferred" THEN 11 ELSE 9

\* bytes of one member of the store as json.dump(indent=2) writes it, without
\* the separator that follows it
EntryBytes(e) ==
    2 + StrBytes(e.key) + 4
    + 12 + StrBytes(e.name) + 2
    + 19 + IntBytes(e.songs_count) + 2
    + 20 + GenreCountsBytes(e.genre_counts) + 2
    + 23 + IntBytes(e.preferred_score) + 2
    + 21 + IntBytes(e.avoided_score) + 2
    + 13 + FloatBytes(e.score) + 2
    + 22 + ClassBytes(e.classification) + 1
    + 3

RECURSIVE EntriesBytesFrom(_, _)
EntriesBytesFrom(es, i) ==
    IF i > Len(es) THEN 0
    ELSE EntryBytes(es[i]) + (IF i < Len(es) THEN 2 ELSE 1) + EntriesBytesFrom(es, i + 1)

\* bytes of the text json.dump(data, f, indent=2, ensure_ascii=False) writes
TextBytes(f) == IF f.entries = <<>> THEN 2 ELSE 2 + EntriesBytesFrom(f.entries, 1) + 1

\* the file after a run writes data at offset 0 of the file as it finds it
Overlay(data, base) ==
    IF base.kind = "empty" THEN data
    ELSE IF base.kind = "json" /\ TextBytes(data) >= TextBytes(base) THEN data
    ELSE GarbageFile

\* a run that has not started starts; each process runs once
RaceStart(p) ==
    /\ pc[p] = "idle"
    /\ Start(p, {[DefaultArgs EXCEPT !.analyze_djs = TRUE]}, Cardinality(Procs))

\* lines 107-108: to_dict of every entry, then open(..., "w")
SaveOpen(p) ==
    /\ pc[p] = "saving"
    /\ IF SaveRaises(dj_stats[p])
       THEN /\ pc' = [pc EXCEPT ![p] = "save_raised"]
            /\ UNCHANGED file
       ELSE /\ pc' = [pc EXCEPT ![p] = "writing"]
            /\ file' = EmptyFile
    /\ UNCHANGED <<args, loaded, dj_stats, scraped, unique_songs, lookups, output, runs,
                   scanVars, unitVars>>

\* line 109 and the close of the file: the text reaches the file
SaveWrite(p) ==
    /\ pc[p] = "writing"
    /\ file' = Overlay(save_dj_stats(dj_stats[p]), file)
    /\ pc' = [pc EXCEPT ![p] = "analyzed"]
    /\ UNCHANGED <<args, loaded, dj_stats, scraped, unique_songs, lookups, output, runs,
                   scanVars, unitVars>>

\* the batches and lookup outcomes of the overlapping runs
RaceBatchPool == {<<Song_QueenBob>>, <<Song_QueenBob, Song_BlurCyd>>}
RaceOutcomePool == {Outcome_Error, Outcome_Genres(<<Tag_IndieRock>>)}

\* two processes, each one analyze run, on the same store file
InitRace == ScanInit /\ UnitIdle /\ MainInit({MissingFile})

NextRace ==
    \E p \in Procs :
       \/ RaceStart(p)
       \/ Scrape(p, RaceBatchPool)
       \/ DedupeStep(p)
       \/ AnalyzeStep(p, RaceOutcomePool)
       \/ SaveOpen(p)
       \/ SaveWrite(p)
       \/ FilterStep(p)
       \/ WriteOutput(p)

SpecRace == InitRace /\ [][NextRace]_vars

(***************************************************************************)
(* Properties of overlapping analyze runs                                  *)
(***************************************************************************)
\* the positions of a run after its save
SavedAt == {"analyzed", "filtered", "done", "filter_raised", "write_raised"}

\* C15: when a run completes its save after the other run, both having
\* loaded the same store, the persisted store is exactly the store this run
\* wrote.
C15_LastWriterWins ==
    [][\A p \in Procs : \A q \in Procs \ {p} :
          (/\ pc[p] = "writing"
           /\ pc'[p] = "analyzed"
           /\ pc[q] \in SavedAt
           /\ loaded[p] = loaded[q]) =>
              file' = save_dj_stats(dj_stats[p])]_vars

(***************************************************************************)
(* Properties of the filters as list operations                            *)
(***************************************************************************)
\* a is b with some of its positions removed
IsSubsequence(a, b) == \E I \in SUBSET (1..Len(b)) : Restrict(b, I) = a

\* C16: the list a requested filter passes on is the deduplicated list with
\* some of its records removed: nothing added, changed, repeated or moved.
C16_FilterKeepsSubsequence ==
    (pc[1] = "filtered" /\ FilterRequested(1)) =>
        IsSubsequence(unique_songs[1], Deduplicated(scraped[1]))

\* top-2 on the stored scores has kept two songs of two presenters in their
\* order, the lower ranked presenter first
C16_Witness ==
    /\ pc[1] = "filtered"
    /\ args[1].top_djs = 2
    /\ ~args[1].analyze_djs
    /\ file = File_Scores
    /\ scraped[1] = <<Song_QueenBob, Song_AbbaAnn>>
    /\ unique_songs[1] = <<Song_QueenBob, Song_AbbaAnn>>

(***************************************************************************)
(* One run from a store whose derived fields may have been edited          *)
(***************************************************************************)
\* File_Scores with the serialized score and classification of Ann and of
\* Cyd exchanged for values their counters do not give
File_Tampered ==
    JsonFile(<<[StoredEntry(Name_Ann, 10, 8, 1) EXCEPT
                   !.score = <<-5, 1>>, !.classification = "avoided"],
               StoredEntry(Name_Bob, 5, 0, 0),
               [StoredEntry(Name_Cyd, 10, 0, 5) EXCEPT
                   !.score = <<9, 1>>, !.classification = "preferred"]>>)

StoreFilePool == {MissingFile, File_Scores, File_Tampered, File_Ties}

InitStore == ScanInit /\ UnitIdle /\ MainInit(StoreFilePool)

NextStore ==
    \/ Start(1, ArgSpace, 1)
    \/ ShowDJs(1)
    \/ Scrape(1, SeqsUpTo(SongPool, MaxSongs))
    \/ DedupeStep(1)
    \/ SkipAnalyze(1)
    \/ AnalyzeStep(1, OutcomePool)
    \/ SaveStep(1)
    \/ FilterStep(1)
    \/ WriteOutput(1)
    \/ WriteRaises(1)

SpecStore == InitStore /\ [][NextStore]_vars

(***************************************************************************)
(* Properties of the store round trip                                      *)
(***************************************************************************)
\* the store made of the keys, names and counters of the file, whatever its
\* score and classification fields hold
CountersStore(f) ==
    IF f.kind # "json" THEN <<>>
    ELSE [i \in 1..Len(f.entries) |->
             [key |-> f.entries[i].key,
              st |-> [name |-> f.entries[i].name,
                      songs_count |-> f.entries[i].songs_count,
                      count_type |-> "int",
                      genre_counts |-> f.entries[i].genre_counts,
                      preferred_score |-> f.entries[i].preferred_score,
                      avoided_score |-> f.entries[i].avoided_score]]]

\* the classification the counters give
ClassOfCounters(s, p, a) ==
    IF s = 0 THEN "neutral"
    ELSE IF 10 * (p - a) > s THEN "preferred"
    ELSE IF 10 * (p - a) < -s THEN "avoided"
    ELSE "neutral"

\* C17: the store a run loads has the counters of the file; the store a run
\* has saved holds the counters the run held; the classification the run
\* uses and the list its filter passes on are those the counters give,
\* whatever the score and classification fields of the file are.
C17_RoundTripIgnoresDerived ==
    /\ pc[1] = "loaded" => loaded[1] = CountersStore(file)
    /\ (pc[1] = "analyzed" /\ args[1].analyze_djs) => load_dj_stats(file) = dj_stats[1]
    /\ pc[1] # "idle" =>
          \A i \in 1..Len(dj_stats[1]) :
             Classification(dj_stats[1][i].st) =
                ClassOfCounters(dj_stats[1][i].st.songs_count,
                                dj_stats[1][i].st.preferred_score,
                                dj_stats[1][i].st.avoided_score)
    /\ pc[1] = "filtered" =>
          unique_songs[1] = Filtered(Deduplicated(scraped[1]), CountersStore(file), args[1])

\* a run from the edited store keeps the song of the presenter its counters
\* prefer and drops the song of the presenter the file calls preferred
C17_Witness ==
    /\ pc[1] = "filtered"
    /\ file = File_Tampered
    /\ args[1].filter_djs /\ args[1].top_djs = 0 /\ ~args[1].analyze_djs
    /\ scraped[1] = <<Song_AbbaAnn, Song_BlurCyd>>
    /\ unique_songs[1] = <<Song_AbbaAnn>>

\* a run that analysed has saved its store, and loading the file gives it back
C17_SavedWitness ==
    /\ pc[1] = "analyzed"
    /\ args[1].analyze_djs
    /\ dj_stats[1] # <<>>
    /\ dj_stats[1] # loaded[1]
    /\ load_dj_stats(file) = dj_stats[1]

====
